---- MODULE Spec2Model ----
(***************************************************************************)
(* Model of sqlmesh/core/engine_adapter/risingwave.py:                     *)
(*   - the type-compatibility matrix configured in SCHEMA_DIFFER and the   *)
(*     decision procedure that consumes it,                                *)
(*   - catalog introspection (_get_data_objects),                          *)
(*   - adapter construction, _begin_session and _fetch_native_df.          *)
(***************************************************************************)
EXTENDS Integers, Sequences, FiniteSets, Bags, TLC

\* ------------------------------------------------------------------ bounds
\* at most this many rows over pg_tables, pg_views and pg_matviews together
MaxObjects == 3
\* at most this many commits are counted on the connection pool
MaxCommits == 2
\* at most this many executions of SET RW_IMPLICIT_FLUSH are counted
MaxFlushAttempts == 3

\* ------------------------------------------------------------ input domains
None == "None"
SchemaIds == {"s", "S"}
ObjectIds == {"a", "A"}
RequestDbs == {"s", "S"}
RequestCatalogs == {"c1"}
SchemaNames == {<<db>> : db \in RequestDbs}
                 \cup {<<c, db>> : c \in RequestCatalogs, db \in RequestDbs}
NameSets == SUBSET ObjectIds
Outcomes == {"ok", "error"}

BaseTypes == {"DECIMAL", "CHAR", "TIME", "TIMESTAMP", "TEXT", "VARCHAR",
              "BPCHAR", "INT", "JSONB"}
ParamTuples == {<<>>, <<0>>, <<1>>, <<6>>, <<10>>, <<20>>,
                <<147455, 16383>>, <<10, 2>>, <<10, 4>>, <<20, 2>>}
Descriptors == [base : BaseTypes, params : ParamTuples]

VARIABLES
    pg_tables, pg_views, pg_matviews,   \* the three catalog sources
    request, ret,                       \* last _get_data_objects call, its result
    current, desired, decision,         \* last type comparison
    adapter,                            \* "new", "ready", "init_failed"
    implicit_flush,                     \* session has RW_IMPLICIT_FLUSH on
    flush_attempts,                     \* executions of the SET statement
    stmt_outcome,                       \* outcome of the last SET statement
    is_transaction_active,              \* _connection_pool.is_transaction_active
    conn_open_txn,                      \* connection holds an open transaction
    commit_count,                       \* commits issued on the pool
    last_op, raised                     \* last handler, did it raise

catalog_vars == <<pg_tables, pg_views, pg_matviews>>
call_vars    == <<request, ret>>
diff_vars    == <<current, desired, decision>>
session_vars == <<adapter, implicit_flush, flush_attempts, stmt_outcome>>
txn_vars     == <<is_transaction_active, conn_open_txn, commit_count>>
op_vars      == <<last_op, raised>>
vars == <<pg_tables, pg_views, pg_matviews, request, ret, current, desired,
          decision, adapter, implicit_flush, flush_attempts, stmt_outcome,
          is_transaction_active, conn_open_txn, commit_count, last_op, raised>>

\* =================================================== SCHEMA_DIFFER (43-70)
\* parameterized_type_defaults with DECIMAL's precision missing the scale digits
parameterized_type_defaults_short_decimal ==
    [b \in {"DECIMAL", "CHAR", "TIME", "TIMESTAMP"} |->
        CASE b = "DECIMAL"   -> << <<131072, 16383>>, <<0>> >>
          [] b = "CHAR"      -> << <<1>> >>
          [] b = "TIME"      -> << <<6>> >>
          [] b = "TIMESTAMP" -> << <<6>> >>]

parameterized_type_defaults ==
    [b \in {"DECIMAL", "CHAR", "TIME", "TIMESTAMP"} |->
        CASE b = "DECIMAL"   -> << <<131072 + 16383, 16383>>, <<0>> >>
          [] b = "CHAR"      -> << <<1>> >>
          [] b = "TIME"      -> << <<6>> >>
          [] b = "TIMESTAMP" -> << <<6>> >>]

\* types_with_unlimited_length with VARCHAR left out of TEXT's set
types_with_unlimited_length_no_varchar_to_text ==
    [b \in {"TEXT", "VARCHAR", "BPCHAR"} |->
        CASE b = "TEXT"    -> {"CHAR", "BPCHAR"}
          [] b = "VARCHAR" -> {"VARCHAR", "CHAR", "BPCHAR", "TEXT"}
          [] b = "BPCHAR"  -> {"BPCHAR"}]

\* types_with_unlimited_length with the TEXT and VARCHAR sets made alike
types_with_unlimited_length_symmetric ==
    [b \in {"TEXT", "VARCHAR", "BPCHAR"} |->
        CASE b = "TEXT"    -> {"VARCHAR", "CHAR", "BPCHAR"}
          [] b = "VARCHAR" -> {"VARCHAR", "CHAR", "BPCHAR"}
          [] b = "BPCHAR"  -> {"BPCHAR"}]

types_with_unlimited_length ==
    [b \in {"TEXT", "VARCHAR", "BPCHAR"} |->
        CASE b = "TEXT"    -> {"VARCHAR", "CHAR", "BPCHAR"}
          [] b = "VARCHAR" -> {"VARCHAR", "CHAR", "BPCHAR", "TEXT"}
          [] b = "BPCHAR"  -> {"BPCHAR"}]

\* ------------------------------------------- TypeCompatibilityMatrix lookups
\* a base type has an entry when either table of the matrix is keyed by it
IsRegistered(baseType) ==
    \/ baseType \in DOMAIN parameterized_type_defaults
    \/ baseType \in DOMAIN types_with_unlimited_length

\* ordered default tuples of a registered base type; empty = no implicit ones
defaultParametersFor(baseType) ==
    IF baseType \in DOMAIN parameterized_type_defaults
    THEN parameterized_type_defaults[baseType]
    ELSE <<>>

canWidenWithoutRebuild(fromBaseType, toBaseType) ==
    /\ toBaseType \in DOMAIN types_with_unlimited_length
    /\ fromBaseType \in types_with_unlimited_length[toBaseType]

\* ------------------------------------------------------- SchemaDiffEngine
\* the comparison accepts a default tuple when it has as many dimensions as
\* the other side, or when the other side is unparameterized as well
Accepts(tuple, other) ==
    other.params = <<>> \/ Len(tuple) = Len(other.params)

Normalize(d, other) ==
    IF d.params # <<>> THEN d
    ELSE LET defaults == defaultParametersFor(d.base)
             ok == {i \in 1..Len(defaults) : Accepts(defaults[i], other)}
         IN  IF ok = {} THEN d
             ELSE [d EXCEPT !.params =
                      defaults[CHOOSE i \in ok : \A j \in ok : i <= j]]

\* desired is >= current on every dimension
ParamsGE(desiredParams, currentParams) ==
    /\ Len(desiredParams) = Len(currentParams)
    /\ \A i \in 1..Len(currentParams) : desiredParams[i] >= currentParams[i]

NonNarrowing(c, d) ==
    d.params = <<>> \/ ParamsGE(d.params, c.params)

\* a decision procedure that treats an unknown base type as a rebuild
decide_defaulting_to_rebuild(cur, des) ==
    LET c == Normalize(cur, des)
        d == Normalize(des, cur)
    IN  IF c = d THEN "NoChange"
        ELSE IF /\ canWidenWithoutRebuild(c.base, d.base)
                /\ NonNarrowing(c, d)
             THEN "SafeAlter"
             ELSE "RequiresRebuild"

\* decide: unknown base types are surfaced first; both sides are normalized;
\* identical descriptors are NoChange; a registered widening whose parameters
\* do not narrow is SafeAlter (the matrix registers VARCHAR and BPCHAR as
\* widening into themselves, lines 58-68, so the rule is not limited to
\* different base types); everything else is RequiresRebuild
decide(cur, des) ==
    IF ~IsRegistered(cur.base) \/ ~IsRegistered(des.base)
    THEN "UnknownTypeError"
    ELSE LET c == Normalize(cur, des)
             d == Normalize(des, cur)
         IN  IF c = d THEN "NoChange"
             ELSE IF /\ canWidenWithoutRebuild(c.base, d.base)
                     /\ NonNarrowing(c, d)
                  THEN "SafeAlter"
                  ELSE "RequiresRebuild"

\* ============================================ _get_data_objects (144-187)
\* bag helpers: a query result is a multiset of rows (row order is not fixed)
RECURSIVE SumOver(_, _)
SumOver(B, S) ==
    IF S = {} THEN 0
    ELSE LET x == CHOOSE y \in S : TRUE IN B[x] + SumOver(B, S \ {x})

\* the rows of B that are in keep, each as often as in B
BagRestrict(B, keep) == [x \in DOMAIN B \cap keep |-> B[x]]

\* to_schema(schema_name): "db" or "catalog.db" parsed into its parts
to_schema(schema_name) ==
    IF Len(schema_name) = 1
    THEN [catalog |-> None, db |-> schema_name[1]]
    ELSE [catalog |-> schema_name[1], db |-> schema_name[2]]

\* DataObjectType.from_str: the kind label of a row to the kind enum
from_str(label) ==
    CASE label = "TABLE"             -> "DataObjectType.TABLE"
      [] label = "VIEW"              -> "DataObjectType.VIEW"
      [] label = "MATERIALIZED_VIEW" -> "DataObjectType.MATERIALIZED_VIEW"
      [] OTHER                       -> "UnknownObjectKindError"

table_query ==
    SetToBag({[schema_name |-> r.schemaname, name |-> r.tablename,
               type |-> "TABLE"] : r \in pg_tables})

view_query ==
    SetToBag({[schema_name |-> r.schemaname, name |-> r.viewname,
               type |-> "VIEW"] : r \in pg_views})

materialized_view_query ==
    SetToBag({[schema_name |-> r.schemaname, name |-> r.matviewname,
               type |-> "MATERIALIZED_VIEW"] : r \in pg_matviews})

\* a union that keeps one row for each (schema_name, name)
subquery_distinct_names ==
    LET all == table_query (+) (view_query (+) materialized_view_query)
        keep == {x \in DOMAIN all :
                    \A y \in DOMAIN all :
                       (y.schema_name = x.schema_name /\ y.name = x.name)
                          => (x.type = "TABLE"
                              \/ (x.type = "VIEW" /\ y.type # "TABLE")
                              \/ y.type = x.type)}
    IN  BagRestrict(all, keep)

\* exp.union(..., distinct=False) of the three kind-specific queries
subquery ==
    table_query (+) (view_query (+) materialized_view_query)

\* a schema filter that folds case
Lower(id) == CASE id = "S" -> "s" [] id = "A" -> "a" [] OTHER -> id

where_schema_ignoring_case(rows, schema_name) ==
    LET db == to_schema(schema_name).db
    IN  BagRestrict(rows, {x \in DOMAIN rows :
                                  Lower(x.schema_name) = Lower(db)})

\* .where(schema_name = to_schema(schema_name).db)
where_schema(rows, schema_name) ==
    LET db == to_schema(schema_name).db
    IN  BagRestrict(rows, {x \in DOMAIN rows : x.schema_name = db})

\* `if object_names:` -- None and the empty set are both falsy
is_truthy(has_names, object_names) == has_names /\ object_names # {}

\* .where(name IN object_names), applied only under `if object_names:`
where_names(rows, has_names, object_names) ==
    IF is_truthy(has_names, object_names)
    THEN BagRestrict(rows, {x \in DOMAIN rows : x.name \in object_names})
    ELSE rows

\* line 150: catalog = None
result_catalog(schema_name) == None

DataObject(catalog, row) ==
    [catalog |-> catalog, schema |-> row.schema_name, name |-> row.name,
     type |-> from_str(row.type)]

\* the list _get_data_objects returns, as a multiset of DataObject
data_objects(schema_name, has_names, object_names) ==
    LET df == where_names(where_schema(subquery, schema_name),
                          has_names, object_names)
        catalog == result_catalog(schema_name)
    IN  [o \in {DataObject(catalog, row) : row \in DOMAIN df} |->
            SumOver(df, {row \in DOMAIN df : DataObject(catalog, row) = o})]

\* ================================================= connection pool state
\* _connection_pool.commit(): ends the open transaction, counts one commit
PoolCommit ==
    /\ commit_count < MaxCommits
    /\ commit_count' = commit_count + 1
    /\ is_transaction_active' = FALSE
    /\ conn_open_txn' = FALSE

\* a fetch that commits whatever the transaction state
commit_after_fetch_always(active) == TRUE

\* line 117: `if not self._connection_pool.is_transaction_active`
commit_after_fetch(active) == ~active

\* lines 116-119: the read leaves a transaction open on the connection, which
\* is committed when the caller has no transaction of its own; a read that
\* raises propagates before line 117
FetchNativeDf(outcome) ==
    IF outcome = "ok"
    THEN /\ raised' = FALSE
         /\ IF commit_after_fetch(is_transaction_active)
            THEN PoolCommit
            ELSE /\ conn_open_txn' = TRUE
                 /\ UNCHANGED <<is_transaction_active, commit_count>>
    ELSE /\ raised' = TRUE
         /\ conn_open_txn' = TRUE
         /\ UNCHANGED <<is_transaction_active, commit_count>>

\* the caller opens a transaction on the pool
pool_begin ==
    /\ adapter = "ready"
    /\ ~is_transaction_active
    /\ is_transaction_active' = TRUE
    /\ conn_open_txn' = TRUE
    /\ last_op' = "begin"
    /\ raised' = FALSE
    /\ UNCHANGED <<commit_count, catalog_vars, call_vars, diff_vars, session_vars>>

\* the caller commits its transaction
pool_commit ==
    /\ adapter = "ready"
    /\ is_transaction_active
    /\ PoolCommit
    /\ last_op' = "commit"
    /\ raised' = FALSE
    /\ UNCHANGED <<catalog_vars, call_vars, diff_vars, session_vars>>

\* _fetch_native_df (108-119)
fetch_native_df(outcome) ==
    /\ adapter = "ready"
    /\ FetchNativeDf(outcome)
    /\ last_op' = "_fetch_native_df"
    /\ UNCHANGED <<catalog_vars, call_vars, diff_vars, session_vars>>

\* ================================================== catalog and its readers
NoRequest ==
    [called |-> FALSE, schema_name |-> <<"s">>, has_names |-> FALSE,
     object_names |-> {}]

RowCount == Cardinality(pg_tables) + Cardinality(pg_views)
              + Cardinality(pg_matviews)

\* DDL from any session adds a row to one of the sources
create_object(kind, s, n) ==
    /\ RowCount < MaxObjects
    /\ CASE kind = "TABLE" ->
              /\ [schemaname |-> s, tablename |-> n] \notin pg_tables
              /\ pg_tables' = pg_tables \cup {[schemaname |-> s, tablename |-> n]}
              /\ UNCHANGED <<pg_views, pg_matviews>>
         [] kind = "VIEW" ->
              /\ [schemaname |-> s, viewname |-> n] \notin pg_views
              /\ pg_views' = pg_views \cup {[schemaname |-> s, viewname |-> n]}
              /\ UNCHANGED <<pg_tables, pg_matviews>>
         [] OTHER ->
              /\ [schemaname |-> s, matviewname |-> n] \notin pg_matviews
              /\ pg_matviews' = pg_matviews
                                  \cup {[schemaname |-> s, matviewname |-> n]}
              /\ UNCHANGED <<pg_tables, pg_views>>
    /\ request' = NoRequest
    /\ ret' = EmptyBag
    /\ UNCHANGED <<diff_vars, session_vars, txn_vars, op_vars>>

\* DDL from any session removes a row from one of the sources
drop_object(kind, s, n) ==
    /\ CASE kind = "TABLE" ->
              /\ [schemaname |-> s, tablename |-> n] \in pg_tables
              /\ pg_tables' = pg_tables \ {[schemaname |-> s, tablename |-> n]}
              /\ UNCHANGED <<pg_views, pg_matviews>>
         [] kind = "VIEW" ->
              /\ [schemaname |-> s, viewname |-> n] \in pg_views
              /\ pg_views' = pg_views \ {[schemaname |-> s, viewname |-> n]}
              /\ UNCHANGED <<pg_tables, pg_matviews>>
         [] OTHER ->
              /\ [schemaname |-> s, matviewname |-> n] \in pg_matviews
              /\ pg_matviews' = pg_matviews
                                  \ {[schemaname |-> s, matviewname |-> n]}
              /\ UNCHANGED <<pg_tables, pg_views>>
    /\ request' = NoRequest
    /\ ret' = EmptyBag
    /\ UNCHANGED <<diff_vars, session_vars, txn_vars, op_vars>>

\* _get_data_objects (144-187); self.fetchdf runs _fetch_native_df
get_data_objects(schema_name, has_names, object_names, outcome) ==
    /\ adapter = "ready"
    /\ FetchNativeDf(outcome)
    /\ last_op' = "_get_data_objects"
    /\ IF outcome = "ok"
       THEN /\ request' = [called |-> TRUE, schema_name |-> schema_name,
                           has_names |-> has_names,
                           object_names |-> object_names]
            /\ ret' = data_objects(schema_name, has_names, object_names)
       ELSE /\ request' = NoRequest
            /\ ret' = EmptyBag
    /\ UNCHANGED <<catalog_vars, diff_vars, session_vars>>

\* ============================================== construction and sessions
\* a constructor without the try/except around the SET statement
init_without_except(base_ok, outcome) ==
    /\ adapter = "new"
    /\ last_op' = "__init__"
    /\ IF ~base_ok
       THEN /\ adapter' = "init_failed"
            /\ raised' = TRUE
            /\ UNCHANGED <<implicit_flush, flush_attempts, stmt_outcome>>
       ELSE /\ flush_attempts' = flush_attempts + 1
            /\ stmt_outcome' = outcome
            /\ implicit_flush' = (outcome = "ok")
            /\ adapter' = IF outcome = "ok" THEN "ready" ELSE "init_failed"
            /\ raised' = (outcome # "ok")
    /\ UNCHANGED <<catalog_vars, call_vars, diff_vars, txn_vars>>

\* __init__ (72-97): super().__init__, then the SET statement under try/except
init(base_ok, outcome) ==
    /\ adapter = "new"
    /\ last_op' = "__init__"
    /\ IF ~base_ok
       THEN /\ adapter' = "init_failed"
            /\ raised' = TRUE
            /\ UNCHANGED <<implicit_flush, flush_attempts, stmt_outcome>>
       ELSE /\ flush_attempts' = flush_attempts + 1
            /\ stmt_outcome' = outcome
            /\ implicit_flush' = (outcome = "ok")
            /\ adapter' = "ready"
            /\ raised' = FALSE
    /\ UNCHANGED <<catalog_vars, call_vars, diff_vars, txn_vars>>

\* _begin_session (99-105): the SET statement with no handler around it
begin_session(outcome) ==
    /\ adapter = "ready"
    /\ flush_attempts < MaxFlushAttempts
    /\ last_op' = "_begin_session"
    /\ flush_attempts' = flush_attempts + 1
    /\ stmt_outcome' = outcome
    /\ implicit_flush' = (implicit_flush \/ outcome = "ok")
    /\ raised' = (outcome # "ok")
    /\ UNCHANGED <<adapter, catalog_vars, call_vars, diff_vars, txn_vars>>

\* ===================================================== type comparisons
\* SCHEMA_DIFFER is asked about a pair of column types
Decide ==
    /\ decision = "pending"
    /\ decision' = decide(current, desired)
    /\ UNCHANGED <<current, desired, catalog_vars, call_vars, session_vars,
                   txn_vars, op_vars>>

\* ======================================================= specifications
ReadyAdapter ==
    /\ adapter = "ready"
    /\ implicit_flush = TRUE
    /\ flush_attempts = 1
    /\ stmt_outcome = "ok"
    /\ is_transaction_active = FALSE
    /\ conn_open_txn = FALSE
    /\ commit_count = 0
    /\ last_op = "__init__"
    /\ raised = FALSE

EmptyCatalog ==
    /\ pg_tables = {}
    /\ pg_views = {}
    /\ pg_matviews = {}
    /\ request = NoRequest
    /\ ret = EmptyBag

NoComparison ==
    /\ current = [base |-> "TEXT", params |-> <<>>]
    /\ desired = [base |-> "TEXT", params |-> <<>>]
    /\ decision = "NoChange"

\* introspection on a constructed adapter while the catalog changes
InitCatalog == ReadyAdapter /\ EmptyCatalog /\ NoComparison

NextCatalog ==
    \/ \E kind \in {"TABLE", "VIEW", "MATERIALIZED_VIEW"}, s \in SchemaIds,
          n \in ObjectIds : create_object(kind, s, n)
    \/ \E kind \in {"TABLE", "VIEW", "MATERIALIZED_VIEW"}, s \in SchemaIds,
          n \in ObjectIds : drop_object(kind, s, n)
    \/ \E schema_name \in SchemaNames, has_names \in BOOLEAN,
          object_names \in NameSets, outcome \in Outcomes :
          /\ (~has_names => object_names = {})
          /\ get_data_objects(schema_name, has_names, object_names, outcome)
    \/ pool_begin
    \/ pool_commit

SpecCatalog == InitCatalog /\ [][NextCatalog]_vars

\* type comparisons over every pair of descriptors
InitDiff ==
    /\ ReadyAdapter /\ EmptyCatalog
    /\ current \in Descriptors
    /\ desired \in Descriptors
    /\ decision = "pending"

NextDiff == Decide

SpecDiff == InitDiff /\ [][NextDiff]_vars

\* construction, sessions, transactions and fetches
InitAdapter ==
    /\ EmptyCatalog /\ NoComparison
    /\ adapter = "new"
    /\ implicit_flush = FALSE
    /\ flush_attempts = 0
    /\ stmt_outcome = "none"
    /\ is_transaction_active = FALSE
    /\ conn_open_txn = FALSE
    /\ commit_count = 0
    /\ last_op = "none"
    /\ raised = FALSE

NextAdapter ==
    \/ \E base_ok \in BOOLEAN, outcome \in Outcomes : init(base_ok, outcome)
    \/ \E outcome \in Outcomes : begin_session(outcome)
    \/ pool_begin
    \/ pool_commit
    \/ \E outcome \in Outcomes : fetch_native_df(outcome)

SpecAdapter == InitAdapter /\ [][NextAdapter]_vars

\* ================================================================ claims
\* what the last introspection call asked for
ReqDb == request.schema_name[Len(request.schema_name)]
ReqCatalog ==
    IF Len(request.schema_name) = 2 THEN request.schema_name[1] ELSE None

InTables(s, n)   == [schemaname |-> s, tablename |-> n] \in pg_tables
InViews(s, n)    == [schemaname |-> s, viewname |-> n] \in pg_views
InMatviews(s, n) == [schemaname |-> s, matviewname |-> n] \in pg_matviews

\* number of returned entries with this schema, name and kind
Entries(s, n, kind) ==
    SumOver(ret, {o \in DOMAIN ret :
                     o.schema = s /\ o.name = n /\ o.type = kind})

\* number of sources that hold a row for this schema and name
SourcesHolding(s, n) ==
    (IF InTables(s, n) THEN 1 ELSE 0) + (IF InViews(s, n) THEN 1 ELSE 0)
        + (IF InMatviews(s, n) THEN 1 ELSE 0)

RECURSIVE SumHolding(_, _)
SumHolding(s, names) ==
    IF names = {} THEN 0
    ELSE LET n == CHOOSE m \in names : TRUE
         IN  SourcesHolding(s, n) + SumHolding(s, names \ {n})

\* C1: a call without a name set returns exactly one DataObject for every row
\* that the tables, views and materialized-views sources hold for the
\* requested schema at the time of the call, with the kind of its source, and
\* nothing else: nothing of another schema, nothing of an earlier catalog
\* state; no matching row gives an empty result.
C1_FreshExactListing ==
    (request.called /\ ~request.has_names) =>
        /\ \A o \in DOMAIN ret : o.schema = ReqDb
        /\ \A o \in DOMAIN ret :
              o.type \in {"DataObjectType.TABLE", "DataObjectType.VIEW",
                          "DataObjectType.MATERIALIZED_VIEW"}
        /\ \A s \in SchemaIds, n \in ObjectIds :
              /\ Entries(s, n, "DataObjectType.TABLE") =
                    (IF s = ReqDb /\ InTables(s, n) THEN 1 ELSE 0)
              /\ Entries(s, n, "DataObjectType.VIEW") =
                    (IF s = ReqDb /\ InViews(s, n) THEN 1 ELSE 0)
              /\ Entries(s, n, "DataObjectType.MATERIALIZED_VIEW") =
                    (IF s = ReqDb /\ InMatviews(s, n) THEN 1 ELSE 0)
        /\ BagCardinality(ret) = SumHolding(ReqDb, ObjectIds)

\* a call without a name set returned two kinds from the requested schema
\* while another schema, differing in case only, holds a row as well
C1_Witness ==
    /\ request.called /\ ~request.has_names
    /\ \E n \in ObjectIds, m \in ObjectIds :
          /\ Entries(ReqDb, n, "DataObjectType.TABLE") = 1
          /\ Entries(ReqDb, m, "DataObjectType.VIEW") = 1
    /\ \E s \in SchemaIds \ {ReqDb}, n \in ObjectIds :
          SourcesHolding(s, n) > 0

\* C2: whenever a name set is supplied, the empty set included, every
\* returned DataObject has a name in the set and every row of the requested
\* schema whose name is in the set is returned.
C2_NameSetFilters ==
    (request.called /\ request.has_names) =>
        /\ \A o \in DOMAIN ret : o.name \in request.object_names
        /\ \A n \in request.object_names :
              /\ InTables(ReqDb, n) =>
                    Entries(ReqDb, n, "DataObjectType.TABLE") = 1
              /\ InViews(ReqDb, n) =>
                    Entries(ReqDb, n, "DataObjectType.VIEW") = 1
              /\ InMatviews(ReqDb, n) =>
                    Entries(ReqDb, n, "DataObjectType.MATERIALIZED_VIEW") = 1

\* C6: the three sources are not de-duplicated against each other: a name of
\* the requested schema that is returned at all is returned once per source
\* that holds it, each entry with the kind of its source, and the number of
\* entries is the number of source rows of the requested schema (with a
\* non-empty name set: of those named in it).
C6_NoDeduplication ==
    request.called =>
        /\ \A n \in ObjectIds :
              (\E o \in DOMAIN ret : o.name = n) =>
                 /\ Entries(ReqDb, n, "DataObjectType.TABLE") =
                       (IF InTables(ReqDb, n) THEN 1 ELSE 0)
                 /\ Entries(ReqDb, n, "DataObjectType.VIEW") =
                       (IF InViews(ReqDb, n) THEN 1 ELSE 0)
                 /\ Entries(ReqDb, n, "DataObjectType.MATERIALIZED_VIEW") =
                       (IF InMatviews(ReqDb, n) THEN 1 ELSE 0)
        /\ ~request.has_names =>
              BagCardinality(ret) = SumHolding(ReqDb, ObjectIds)
        /\ (request.has_names /\ request.object_names # {}) =>
              BagCardinality(ret) = SumHolding(ReqDb, request.object_names)

\* one name of the requested schema came back both as a table and as a view
C6_Witness ==
    /\ request.called
    /\ \E n \in ObjectIds :
          /\ InTables(ReqDb, n) /\ InViews(ReqDb, n)
          /\ Entries(ReqDb, n, "DataObjectType.TABLE") = 1
          /\ Entries(ReqDb, n, "DataObjectType.VIEW") = 1

\* C7: the catalog part of the locator does not filter (a locator with another
\* catalog part gives the same schema, name and kind entries on the same
\* catalog state) and is carried on every returned DataObject.
StripCatalog(objs) ==
    {[schema |-> o.schema, name |-> o.name, type |-> o.type] :
        o \in DOMAIN objs}

C7_CatalogCarriedNotFiltered ==
    request.called =>
        /\ \A o \in DOMAIN ret : o.catalog = ReqCatalog
        /\ \A other \in SchemaNames :
              other[Len(other)] = ReqDb =>
                 StripCatalog(data_objects(other, request.has_names,
                                           request.object_names))
                    = StripCatalog(ret)

\* C9: a _fetch_native_df call that returns issues exactly one commit on the
\* pool when no transaction is active and none when one is; it leaves the
\* caller's transaction as it found it, and leaves no transaction open on the
\* connection when the caller has none.
C9_FetchCommitsOnlyItsOwnRead ==
    [][(last_op' = "_fetch_native_df" /\ ~raised') =>
          /\ is_transaction_active' = is_transaction_active
          /\ commit_count' =
                commit_count + (IF is_transaction_active THEN 0 ELSE 1)
          /\ (~is_transaction_active => ~conn_open_txn')
          /\ (is_transaction_active => conn_open_txn')]_vars

\* a fetch returned inside the caller's transaction, after an earlier fetch
\* outside any transaction had committed
C9_Witness ==
    /\ last_op = "_fetch_native_df" /\ ~raised
    /\ is_transaction_active /\ conn_open_txn
    /\ commit_count = 1

\* C10: construction does not fail because of the SET RW_IMPLICIT_FLUSH
\* statement: once base initialization succeeded the statement is attempted
\* exactly once and construction completes whatever its outcome; a failing
\* construction attempted no statement. _begin_session executes the statement
\* exactly once and raises exactly when the statement failed.
C10_FlushFailureCaughtOnlyInInit ==
    [][/\ (adapter = "new" /\ adapter' # "new") =>
             /\ (flush_attempts' # flush_attempts =>
                    adapter' = "ready" /\ ~raised')
             /\ (adapter' = "ready" =>
                    flush_attempts' = flush_attempts + 1)
             /\ (raised' =>
                    adapter' = "init_failed"
                       /\ flush_attempts' = flush_attempts)
       /\ (last_op' = "_begin_session" /\ adapter = "ready") =>
             /\ flush_attempts' = flush_attempts + 1
             /\ raised' = (stmt_outcome' = "error")]_vars

\* construction completed although the SET statement failed
C10_Witness ==
    /\ last_op = "__init__" /\ adapter = "ready" /\ ~raised
    /\ stmt_outcome = "error" /\ ~implicit_flush
    /\ flush_attempts = 1

\* the descriptor of a base type with the given parameters
T(baseType, params) == [base |-> baseType, params |-> params]

Decided == decision # "pending"

C4_TextNotInVarcharSet ==
    Decided =>
    /\ \A from \in BaseTypes, to \in BaseTypes :
          canWidenWithoutRebuild(from, to) <=>
             (to \in DOMAIN types_with_unlimited_length
                 /\ from \in types_with_unlimited_length[to])
    /\ {"VARCHAR", "CHAR", "BPCHAR"} \subseteq types_with_unlimited_length["TEXT"]
    /\ "TEXT" \notin types_with_unlimited_length["VARCHAR"]
    /\ canWidenWithoutRebuild("VARCHAR", "TEXT")
    /\ ~canWidenWithoutRebuild("TEXT", "VARCHAR")

\* C4, amended: VARCHAR, CHAR and BPCHAR widen into TEXT and TEXT is also in
\* VARCHAR's widening set, so VARCHAR -> TEXT and TEXT -> VARCHAR are both
\* widenings; the relation is still directional: CHAR and BPCHAR widen into
\* TEXT, TEXT into neither, and an unparameterized VARCHAR is reached from
\* TEXT by an in-place alteration.
C4_DirectionalWithTextInVarcharSet ==
    Decided =>
    /\ \A from \in BaseTypes, to \in BaseTypes :
          canWidenWithoutRebuild(from, to) <=>
             (to \in DOMAIN types_with_unlimited_length
                 /\ from \in types_with_unlimited_length[to])
    /\ {"VARCHAR", "CHAR", "BPCHAR"} \subseteq types_with_unlimited_length["TEXT"]
    /\ "TEXT" \in types_with_unlimited_length["VARCHAR"]
    /\ canWidenWithoutRebuild("VARCHAR", "TEXT")
    /\ canWidenWithoutRebuild("TEXT", "VARCHAR")
    /\ canWidenWithoutRebuild("CHAR", "TEXT")
    /\ ~canWidenWithoutRebuild("TEXT", "CHAR")
    /\ canWidenWithoutRebuild("BPCHAR", "TEXT")
    /\ ~canWidenWithoutRebuild("TEXT", "BPCHAR")
    /\ (Decided /\ current.base = "TEXT" /\ desired = T("VARCHAR", <<>>))
          => decision = "SafeAlter"

\* TEXT was compared with an unparameterized VARCHAR
C4_Witness ==
    /\ current = T("TEXT", <<>>) /\ desired = T("VARCHAR", <<>>)
    /\ decision = "SafeAlter"

\* C5: for DECIMAL, CHAR, TIME and TIMESTAMP the unparameterized descriptor
\* and the one carrying the first default tuple compare as NoChange in both
\* directions, and a comparison leaves both descriptors as they were.
FirstDefault(baseType) ==
    CASE baseType = "DECIMAL"   -> <<147455, 16383>>
      [] baseType = "CHAR"      -> <<1>>
      [] baseType = "TIME"      -> <<6>>
      [] baseType = "TIMESTAMP" -> <<6>>

C5_FirstDefaultIsNoChange ==
    /\ [](Decided =>
            \A b \in {"DECIMAL", "CHAR", "TIME", "TIMESTAMP"} :
               (\/ (current = T(b, <<>>) /\ desired = T(b, FirstDefault(b)))
                \/ (current = T(b, FirstDefault(b)) /\ desired = T(b, <<>>)))
                  => decision = "NoChange")
    /\ [][decision' # decision =>
             (current' = current /\ desired' = desired)]_vars

\* an unparameterized DECIMAL was compared with DECIMAL(147455, 16383)
C5_Witness ==
    /\ current = T("DECIMAL", <<>>)
    /\ desired = T("DECIMAL", <<147455, 16383>>)
    /\ decision = "NoChange"

\* C8: a comparison in which a base type has no entry in the configured
\* matrix ends with UnknownTypeError, never with a decision.
C8_UnknownTypeSurfaces ==
    (Decided /\ (~IsRegistered(current.base) \/ ~IsRegistered(desired.base)))
        => decision = "UnknownTypeError"

\* an unregistered type was compared with itself, parameters identical
C8_Witness ==
    /\ current = T("INT", <<10>>) /\ desired = T("INT", <<10>>)
    /\ decision = "UnknownTypeError"

====
